---- MODULE Spec2Model ----
(***************************************************************************)
(* State-machine model of the two mesh servers of mesh-server/:            *)
(*   app.py                      Flask + Open3D, Ball Pivoting             *)
(*   app_trimesh_alternative.py  Flask + Trimesh, Alpha Shape              *)
(*                                                                         *)
(* A request is handled by a thread; each thread walks through the steps   *)
(* of its handler.  The file system (uploads/ and outputs/) is shared.     *)
(* Library calls (Open3D, Trimesh, SciPy, Flask, the OS) are stubs: what   *)
(* they return is determined by their input where the library fixes it,    *)
(* and chosen nondeterministically (including raising) where it does not.  *)
(*                                                                         *)
(* Numbers with a fractional part are fixed-point, in thousandths.         *)
(* Strings that are parsed or formatted are sequences of one-character     *)
(* strings; None is the empty set and a present value v is {v}.            *)
(***************************************************************************)
EXTENDS Integers, Sequences, FiniteSets, TLC

\* ------------------------------------------------------------- bounds
\* Requests accepted in a run of Spec / SpecRecon (handled one at a time).
MaxRequests == 2
\* Requests accepted in a run of SpecConc (all may be in flight together).
MaxConc == 2

\* ------------------------------------------------------------- python
None == {}
Some(v) == {v}
TheValue(o) == CHOOSE v \in o : TRUE

DigitChars == {"0", "1", "2", "3", "4", "5", "6", "7", "8", "9"}

DigitVal(c) ==
    CASE c = "0" -> 0 [] c = "1" -> 1 [] c = "2" -> 2 [] c = "3" -> 3
      [] c = "4" -> 4 [] c = "5" -> 5 [] c = "6" -> 6 [] c = "7" -> 7
      [] c = "8" -> 8 [] c = "9" -> 9

DigitChar(d) ==
    CASE d = 0 -> "0" [] d = 1 -> "1" [] d = 2 -> "2" [] d = 3 -> "3"
      [] d = 4 -> "4" [] d = 5 -> "5" [] d = 6 -> "6" [] d = 7 -> "7"
      [] d = 8 -> "8" [] d = 9 -> "9"

AllDigits(s) == \A i \in 1..Len(s) : s[i] \in DigitChars

RECURSIVE DigitsValue(_)
DigitsValue(s) ==
    IF Len(s) = 0 THEN 0
    ELSE 10 * DigitsValue(SubSeq(s, 1, Len(s) - 1)) + DigitVal(s[Len(s)])

\* The digits after the point, as thousandths: ".5" is 500, ".05" is 50.
FractionValue(s) ==
    LET d(i) == IF i <= Len(s) THEN DigitVal(s[i]) ELSE 0
    IN  100 * d(1) + 10 * d(2) + d(3)

Unsigned(s) == IF Len(s) > 0 /\ s[1] \in {"-", "+"} THEN Tail(s) ELSE s
Sign(s) == IF Len(s) > 0 /\ s[1] = "-" THEN -1 ELSE 1

\* int(s) of a str: an optional sign and at least one digit, nothing else.
PyInt(s) ==
    LET u == Unsigned(s)
    IN  IF Len(u) > 0 /\ AllDigits(u)
        THEN [ok |-> TRUE, v |-> Sign(s) * DigitsValue(u)]
        ELSE [ok |-> FALSE, v |-> 0]

\* float(s) of a str, in thousandths: digits, at most one point, digits;
\* at least one digit in all.
PyFloat(s) ==
    LET u == Unsigned(s)
        dots == {i \in 1..Len(u) : u[i] = "."}
        dot == IF dots = {} THEN Len(u) + 1 ELSE CHOOSE i \in dots : TRUE
        ip == SubSeq(u, 1, dot - 1)
        fp == SubSeq(u, dot + 1, Len(u))
    IN  IF Cardinality(dots) <= 1 /\ AllDigits(ip) /\ AllDigits(fp)
           /\ Len(ip) + Len(fp) > 0
        THEN [ok |-> TRUE,
              v |-> Sign(s) * (1000 * DigitsValue(ip) + FractionValue(fp))]
        ELSE [ok |-> FALSE, v |-> 0]

\* str(n) of a non-negative int.
RECURSIVE PyStr(_)
PyStr(n) ==
    IF n < 10 THEN <<DigitChar(n)>>
    ELSE Append(PyStr(n \div 10), DigitChar(n % 10))

\* str.lower(), on the letters the formats are written with.
LowerChar(c) ==
    CASE c = "O" -> "o" [] c = "B" -> "b" [] c = "J" -> "j"
      [] c = "P" -> "p" [] c = "L" -> "l" [] c = "Y" -> "y"
      [] OTHER -> c

Lower(s) == [i \in 1..Len(s) |-> LowerChar(s[i])]

\* dict.get(key, default) on a dict modelled as a function.
EmptyDict == [k \in {} |-> 0]
Restrict(f, K) == [k \in K |-> f[k]]

\* --------------------------------------------------------------- data
\* The bytes of a request body or of a file.  fmt is what the bytes are:
\* "ply" / "pcd" a point cloud of n points (with or without normals),
\* "json" a JSON document whose 'points' list has n entries (keys: every
\* entry has 'x', 'y' and 'z'), "badjson" and "junk" unparsable bytes,
\* and for a written mesh "ply" / "obj" / "stl" with n vertices and tris
\* triangles.
Blob(fmt, n, normals, tris, keys) ==
    [fmt |-> fmt, n |-> n, normals |-> normals, tris |-> tris, keys |-> keys]

NoBody == Blob("", 0, FALSE, 0, TRUE)

\* A path "<dir>/<id>.<ext>".
Path(dir, id, ext) == [dir |-> dir, id |-> id, ext |-> ext]

FilesIn(files, dir) == {q \in DOMAIN files : q.dir = dir}

WriteFile(files, path, blob) ==
    [q \in DOMAIN files \cup {path} |-> IF q = path THEN blob ELSE files[q]]

RemoveFile(files, path) == [q \in DOMAIN files \ {path} |-> files[q]]

\* An exception: its class name and str(e).
Exc(type, msg) == [type |-> type, msg |-> msg]

\* ---------------------------------------------------------- variables
VARIABLES
    server,     \* which of the two servers runs: "open3d" or "trimesh"
    thr,        \* thr[r]: the handler thread in slot r (request + locals)
    fs,         \* the files under uploads/ and outputs/: path -> bytes
    issued,     \* the identifiers uuid.uuid4() has returned
    accepted    \* how many requests (or direct calls) were started

vars == <<server, thr, fs, issued, accepted>>

MaxIds == IF MaxRequests > MaxConc THEN MaxRequests ELSE MaxConc
IdSpace == 1..MaxIds
Slots == 1..MaxConc

Idle ==
    [pc |-> "idle", endpoint |-> "", args |-> EmptyDict, ctype |-> "",
     body |-> NoBody, file_id |-> 0, params |-> None, p |-> None,
     alpha |-> 0, output_format |-> "", input_path |-> None,
     output_path |-> None, pcd |-> None, mesh |-> None, stats |-> None,
     resp |-> None, raised |-> <<>>, calls |-> <<>>, created |-> {},
     touched |-> {}]

Busy == {r \in Slots : thr[r].pc # "idle"}
InFlight == {r \in Slots : thr[r].pc \notin {"idle", "done", "returned", "raised"}}
FreeSlot == CHOOSE r \in Slots : thr[r].pc = "idle" /\ \A q \in Slots : thr[q].pc = "idle" => r <= q

Init ==
    /\ server \in {"open3d", "trimesh"}
    /\ thr = [r \in Slots |-> Idle]
    /\ fs = [q \in {} |-> NoBody]
    /\ issued = {}
    /\ accepted = 0

\* ------------------------------------------------------------ inputs
Str25 == <<"2", ".", "5">>
Str3 == <<"3">>
Str01 == <<"0", ".", "1">>
StrAbc == <<"a", "b", "c">>
StrPly == <<"p", "l", "y">>
StrPcd == <<"p", "c", "d">>
StrObj == <<"o", "b", "j">>
StrOBJ == <<"O", "B", "J">>

ArgValues(k) ==
    CASE k = "radius_multiplier" -> {Str25, StrAbc}
      [] k = "num_radii" -> {Str3, Str25}
      [] k = "alpha" -> {Str01, StrAbc}
      [] k = "format" -> {StrOBJ}
      [] k = "input_format" -> {StrPcd}

\* Every query string over the keys in Names.
QueryStrings(Names) ==
    UNION {{f \in [K -> UNION {ArgValues(k) : k \in Names}] :
               \A k \in K : f[k] \in ArgValues(k)} : K \in SUBSET Names}

JsonBodies ==
    {Blob("badjson", 0, FALSE, 0, TRUE), Blob("json", 0, FALSE, 0, TRUE),
     Blob("json", 4, FALSE, 0, TRUE), Blob("json", 4, FALSE, 0, FALSE)}

BinaryBodies ==
    {Blob("ply", 4, FALSE, 0, TRUE), Blob("ply", 5, TRUE, 0, TRUE),
     Blob("pcd", 4, FALSE, 0, TRUE), Blob("junk", 0, FALSE, 0, TRUE)}

Payloads ==
    {<<"application/json", b>> : b \in JsonBodies}
        \cup {<<"application/octet-stream", b>> : b \in BinaryBodies}

\* The query keys a handler reads.
ArgNames(srv, endpoint) ==
    IF endpoint = "mesh"
    THEN IF srv = "open3d"
         THEN {"radius_multiplier", "num_radii", "format", "input_format"}
         ELSE {"alpha", "radius_multiplier", "format"}
    ELSE IF srv = "open3d" /\ endpoint = "stats" THEN {"input_format"} ELSE {}

Request(endpoint, args, payload) ==
    [endpoint |-> endpoint, args |-> args, ctype |-> payload[1], body |-> payload[2]]

\* The requests a client may send to server srv.
Requests(srv) ==
    UNION {{Request(e, a, pl) : a \in QueryStrings(ArgNames(srv, e)), pl \in Payloads} :
              e \in {"mesh", "stats"}}
        \cup {Request("health", EmptyDict, <<"", NoBody>>)}

\* The format a file extension names.
ExtFormat(ext) ==
    CASE ext = StrPly -> "ply" [] ext = StrPcd -> "pcd" [] ext = StrObj -> "obj"
      [] OTHER -> "unknown"

\* ------------------------------------------------------ library stubs
Cloud(n, normals) == [n |-> n, normals |-> normals]

\* o3d.io.read_point_cloud: the cloud the file holds when the file is of
\* the format its extension names; an empty cloud (and a warning, no
\* exception) otherwise, also when the file does not exist.
ReadPointCloud(files, path) ==
    IF path \in DOMAIN files /\ files[path].fmt = ExtFormat(path.ext)
       /\ files[path].fmt \in {"ply", "pcd"}
    THEN Cloud(files[path].n, files[path].normals)
    ELSE Cloud(0, FALSE)

\* The triangle counts Ball Pivoting may end with on a cloud of n points
\* with the given radii: none without radii or with fewer than 3 points;
\* otherwise the geometry decides between none and a surface.
BallPivotingResults(n, radii) ==
    IF Len(radii) = 0 \/ n < 3 THEN {0} ELSE {0, n - 2}

Mesh(nv, nt) == [nv |-> nv, nt |-> nt]

\* ------------------------------------------------------------- errors
\* "except Exception": the classes the handlers' except clause catches.
ExceptionClasses ==
    {"ValueError", "KeyError", "OSError", "FileNotFoundError", "RuntimeError",
     "BadRequest", "QhullError"}

CatchesOnlyValueError(type) == type = "ValueError"

Catches(type) == type \in ExceptionClasses

\* jsonify({'error': str(e), 'type': type(e).__name__}), 500
ErrorResponse(e) ==
    [status |-> 500, body |-> [error |-> e.msg, type |-> e.type],
     file |-> None, headers |-> EmptyDict]

\* What the client gets when an exception leaves the view function: the
\* framework's own 500 page, no JSON body.
Escaped ==
    [status |-> 500, body |-> EmptyDict, file |-> None, headers |-> EmptyDict]

\* Exception e raised at `site` in thread record t and not caught before
\* the handler's top-level except clause (or, for a direct call of the
\* reconstruction function, propagated to the caller).
Raise(t, site, e) ==
    IF t.endpoint = "direct"
    THEN [t EXCEPT !.pc = "raised",
                   !.raised = Append(@, [site |-> site, type |-> e.type, msg |-> e.msg])]
    ELSE [t EXCEPT !.pc = "done",
                   !.raised = Append(@, [site |-> site, type |-> e.type, msg |-> e.msg]),
                   !.resp = Some(IF Catches(e.type) THEN ErrorResponse(e)
                                 ELSE Escaped)]

\* An exception raised and swallowed on the spot (except: pass, or the
\* alpha-shape fallback): the thread goes on.
Swallow(t, site, e) ==
    [t EXCEPT !.raised = Append(@, [site |-> site, type |-> e.type, msg |-> e.msg])]

Called(t, names) == [t EXCEPT !.calls = @ \o names]

\* ------------------------------------------------------------ uuid4
\* str(uuid.uuid4()): an identifier no earlier call returned.  Identifiers
\* are opaque, so the fresh one is taken to be the least unused.
Uuid4Fixed(used) == {1}

Uuid4(used) ==
    {i \in IdSpace \ used : \A j \in IdSpace \ used : i <= j}

\* ===================================================== app.py (Open3D)
DefaultRadiusMultiplier == 1500
DefaultNumRadii == 2
ReconRadiusMultiplier == 1500
ReconNumRadii == 2
ReconNormalMaxNn == 30

\* float(request.args.get(k, default)) / int(request.args.get(k, default))
ArgFloat(args, k, default) ==
    IF k \in DOMAIN args THEN PyFloat(args[k]) ELSE [ok |-> TRUE, v |-> default]

ArgInt(args, k, default) ==
    IF k \in DOMAIN args THEN PyInt(args[k]) ELSE [ok |-> TRUE, v |-> default]

ArgStr(args, k, default) == IF k \in DOMAIN args THEN args[k] ELSE default

\* The params dict create_mesh builds.
CreateMeshParams(radius_multiplier, num_radii) ==
    [radius_multiplier |-> radius_multiplier, num_radii |-> num_radii,
     estimate_normals |-> TRUE]

UploadPathInOutputs(file_id, ext) == Path("outputs", file_id, ext)

UploadPath(file_id, ext) == Path("uploads", file_id, ext)

OutputPathUnnamed(file_id, ext) == Path("outputs", 0, ext)

OutputPath(file_id, ext) == Path("outputs", file_id, ext)

\* The thread record of a request just handed to its view function.
Started(req, id) ==
    [Idle EXCEPT !.endpoint = req.endpoint, !.args = req.args,
                 !.ctype = req.ctype, !.body = req.body, !.file_id = id]

\* create_mesh, up to the parameters: the identifier, the query string.
MeshBegin(r, req) ==
    /\ server = "open3d"
    /\ req.endpoint = "mesh"
    /\ \E id \in Uuid4(issued) :
         LET t0 == Started(req, id)
             rm == ArgFloat(req.args, "radius_multiplier", DefaultRadiusMultiplier)
             nr == ArgInt(req.args, "num_radii", DefaultNumRadii)
         IN  /\ issued' = issued \cup {id}
             /\ thr' = [thr EXCEPT ![r] =
                   IF ~rm.ok
                   THEN Raise(t0, "float", Exc("ValueError", "could not convert string to float"))
                   ELSE IF ~nr.ok
                   THEN Raise(t0, "int", Exc("ValueError", "invalid literal for int()"))
                   ELSE [t0 EXCEPT !.pc = "save",
                                   !.params = Some(CreateMeshParams(rm.v, nr.v)),
                                   !.output_format = ArgStr(req.args, "format", StrPly)]]
    /\ accepted' = accepted + 1
    /\ UNCHANGED <<server, fs>>

\* json_to_ply: the JSON body's points written as a PLY cloud with
\* colours and no normals.  The result is <<thread record, files>>.
JsonToPly(t, files, path) ==
    IF t.body.fmt # "json"
    THEN <<Raise(t, "get_json", Exc("BadRequest", "400 Bad Request")), files>>
    ELSE IF t.body.n = 0
    THEN <<Raise(t, "json_to_ply", Exc("ValueError", "No points in JSON data")), files>>
    ELSE IF ~t.body.keys
    THEN <<Raise(t, "json_to_ply", Exc("KeyError", "'x'")), files>>
    ELSE <<[Called(t, <<"write_point_cloud">>) EXCEPT
               !.input_path = Some(path), !.created = @ \cup {path},
               !.touched = @ \cup {path}],
           WriteFile(files, path, Blob("ply", t.body.n, FALSE, 0, TRUE))>>

\* "Determine input format and save": the upload lands under uploads/.
\* ok is whether open() succeeds.
SaveInput(t, files, ok) ==
    IF t.ctype = "application/json"
    THEN JsonToPly(t, files, UploadPath(t.file_id, StrPly))
    ELSE LET path == UploadPath(t.file_id, ArgStr(t.args, "input_format", StrPly))
         IN  IF ok
             THEN <<[t EXCEPT !.input_path = Some(path), !.created = @ \cup {path},
                              !.touched = @ \cup {path}],
                    WriteFile(files, path, t.body)>>
             ELSE <<Raise([t EXCEPT !.touched = @ \cup {path}], "open",
                          Exc("OSError", "cannot open file")), files>>

\* create_mesh: save the input, fix the output path.
MeshSaveInput(r) ==
    /\ server = "open3d"
    /\ thr[r].endpoint = "mesh"
    /\ thr[r].pc = "save"
    /\ \E ok \in BOOLEAN :
         LET res == SaveInput(thr[r], fs, ok)
             t1 == res[1]
             ext == IF t1.output_format = StrPly THEN StrPly ELSE StrObj
         IN  /\ thr' = [thr EXCEPT ![r] =
                   IF t1.pc = "done" THEN t1
                   ELSE [t1 EXCEPT !.output_path = Some(OutputPath(t1.file_id, ext)),
                                   !.pc = "recon"]]
             /\ fs' = res[2]
    /\ UNCHANGED <<server, issued, accepted>>

\* ----------------------------------- reconstruct_mesh_ball_pivoting
\* params.get(key, default), params being None or a dict.
ParamGetDefaultOnly(params, key, default) == default

ParamGet(params, key, default) ==
    LET d == IF params = None THEN EmptyDict ELSE TheValue(params)
    IN  IF key \in DOMAIN d THEN d[key] ELSE default

\* The five parameters after the defaults are filled in.
ReconParams(params) ==
    [radius_multiplier |-> ParamGet(params, "radius_multiplier", ReconRadiusMultiplier),
     num_radii |-> ParamGet(params, "num_radii", ReconNumRadii),
     estimate_normals |-> ParamGet(params, "estimate_normals", TRUE),
     normal_radius |-> ParamGet(params, "normal_radius", None),
     normal_max_nn |-> ParamGet(params, "normal_max_nn", ReconNormalMaxNn)]

\* "if estimate_normals or not pcd.has_normals()"
NeedNormalsOnlyIfBoth(estimate_normals, has_normals) ==
    estimate_normals /\ ~has_normals

NeedNormals(estimate_normals, has_normals) == estimate_normals \/ ~has_normals

\* The ball radii as multiples of the average point distance:
\* radius_multiplier * (1 + i * 0.5) for i in range(num_radii).
Radii(radius_multiplier, num_radii) ==
    [i \in 1..num_radii |-> (radius_multiplier * (2 + (i - 1))) \div 2]

\* Defaults, load, the empty-cloud check.
ReconLoad(r) ==
    /\ thr[r].pc = "recon"
    /\ LET t == thr[r]
           path == TheValue(t.input_path)
           pcd == ReadPointCloud(fs, path)
           t1 == [Called(t, <<"read_point_cloud">>) EXCEPT
                     !.p = Some(ReconParams(t.params)),
                     !.touched = @ \cup {path}, !.pcd = Some(pcd)]
       IN  thr' = [thr EXCEPT ![r] =
               IF pcd.n = 0
               THEN Raise(t1, "has_points", Exc("ValueError", "Point cloud is empty!"))
               ELSE [t1 EXCEPT !.pc = "normals"]]
    /\ UNCHANGED <<server, fs, issued, accepted>>

\* Normal estimation and orientation, when needed.
ReconNormals(r) ==
    /\ thr[r].pc = "normals"
    /\ LET t == thr[r]
           p == TheValue(t.p)
           pcd == TheValue(t.pcd)
       IN  IF NeedNormals(p.estimate_normals, pcd.normals)
           THEN \E ok \in BOOLEAN :
                  LET t1 == Called(t, IF p.normal_radius = None
                                      THEN <<"compute_nearest_neighbor_distance",
                                             "estimate_normals">>
                                      ELSE <<"estimate_normals">>)
                  IN  thr' = [thr EXCEPT ![r] =
                        IF ok
                        THEN [Called(t1, <<"orient_normals_consistent_tangent_plane">>)
                                 EXCEPT !.pcd = Some(Cloud(pcd.n, TRUE)), !.pc = "bpa"]
                        ELSE Raise(Called(t1, <<"orient_normals_consistent_tangent_plane">>),
                                   "orient_normals", Exc("RuntimeError", "orientation failed"))]
           ELSE thr' = [thr EXCEPT ![r] = [t EXCEPT !.pc = "bpa"]]
    /\ UNCHANGED <<server, fs, issued, accepted>>

\* The radii, Ball Pivoting, the has_triangles check.
ReconBallPivoting(r) ==
    /\ thr[r].pc = "bpa"
    /\ LET t == thr[r]
           p == TheValue(t.p)
           pcd == TheValue(t.pcd)
           radii == Radii(p.radius_multiplier, p.num_radii)
           t1 == Called(t, <<"compute_nearest_neighbor_distance",
                             "create_from_point_cloud_ball_pivoting">>)
       IN  \E nt \in BallPivotingResults(pcd.n, radii) :
             thr' = [thr EXCEPT ![r] =
               IF nt = 0
               THEN Raise(t1, "has_triangles",
                          Exc("ValueError", "Ball Pivoting failed to generate mesh!"))
               ELSE [t1 EXCEPT !.mesh = Some(Mesh(pcd.n, nt)), !.pc = "cleanup"]]
    /\ UNCHANGED <<server, fs, issued, accepted>>

\* Post-processing: the four cleanup steps, then the vertex normals.
ReconCleanup(r) ==
    /\ thr[r].pc = "cleanup"
    /\ thr' = [thr EXCEPT ![r] =
          [Called(thr[r], <<"remove_duplicated_vertices", "remove_duplicated_triangles",
                            "remove_degenerate_triangles", "remove_unreferenced_vertices",
                            "compute_vertex_normals">>)
              EXCEPT !.pc = "write"]]
    /\ UNCHANGED <<server, fs, issued, accepted>>

\* Save the mesh; return the statistics.  When write_triangle_mesh
\* reports failure the file may or may not have been created.
ReconWrite(r) ==
    /\ thr[r].pc = "write"
    /\ LET t == thr[r]
           path == TheValue(t.output_path)
           mesh == TheValue(t.mesh)
           pcd == TheValue(t.pcd)
           t1 == [Called(t, <<"write_triangle_mesh">>) EXCEPT !.touched = @ \cup {path}]
       IN  \E success \in BOOLEAN, partial \in BOOLEAN :
             IF success
             THEN /\ ~partial
                  /\ fs' = WriteFile(fs, path,
                              Blob(ExtFormat(path.ext), mesh.nv, TRUE, mesh.nt, TRUE))
                  /\ thr' = [thr EXCEPT ![r] =
                        [t1 EXCEPT !.created = @ \cup {path},
                                   !.stats = Some([num_input_points |-> pcd.n,
                                                   num_vertices |-> mesh.nv,
                                                   num_triangles |-> mesh.nt]),
                                   !.pc = IF t.endpoint = "direct" THEN "returned"
                                          ELSE "remove"]]
             ELSE /\ fs' = IF partial
                           THEN WriteFile(fs, path, Blob("junk", 0, FALSE, 0, TRUE))
                           ELSE fs
                  /\ thr' = [thr EXCEPT ![r] =
                        Raise([t1 EXCEPT !.created = IF partial THEN @ \cup {path} ELSE @],
                              "write_triangle_mesh",
                              Exc("OSError", "Failed to save mesh"))]
    /\ UNCHANGED <<server, issued, accepted>>

\* "Clean up input file": os.remove inside try / except: pass.
MeshRemoveInput(r) ==
    /\ server = "open3d"
    /\ thr[r].endpoint = "mesh"
    /\ thr[r].pc = "remove"
    /\ LET t == thr[r]
           path == TheValue(t.input_path)
           t1 == [Called(t, <<"os.remove">>) EXCEPT !.touched = @ \cup {path}, !.pc = "send"]
       IN  \E ok \in BOOLEAN :
             IF ok /\ path \in DOMAIN fs
             THEN /\ fs' = RemoveFile(fs, path)
                  /\ thr' = [thr EXCEPT ![r] = t1]
             ELSE /\ fs' = fs
                  /\ thr' = [thr EXCEPT ![r] =
                        Swallow(t1, "os.remove", Exc("OSError", "cannot remove file"))]
    /\ UNCHANGED <<server, issued, accepted>>

\* send_file(output_path, ...) and the statistics headers: the 200
\* response.  ok is whether send_file finds and opens the file.
SendFile(t, files, ok) ==
    LET path == TheValue(t.output_path)
        stats == TheValue(t.stats)
        t1 == [Called(t, <<"send_file">>) EXCEPT !.touched = @ \cup {path}]
    IN  IF ok /\ path \in DOMAIN files
        THEN [t1 EXCEPT !.pc = "done",
                 !.resp = Some([status |-> 200, body |-> EmptyDict,
                                file |-> Some(files[path]),
                                headers |->
                                  [XNumVertices |-> PyStr(stats.num_vertices),
                                   XNumTriangles |-> PyStr(stats.num_triangles)]])]
        ELSE Raise(t1, "send_file", Exc("FileNotFoundError", "No such file or directory"))

MeshSendFile(r) ==
    /\ server = "open3d"
    /\ thr[r].endpoint = "mesh"
    /\ thr[r].pc = "send"
    /\ \E ok \in BOOLEAN : thr' = [thr EXCEPT ![r] = SendFile(thr[r], fs, ok)]
    /\ UNCHANGED <<server, fs, issued, accepted>>

\* --------------------------------------------------- get_mesh_stats
StatsBegin(r, req) ==
    /\ server = "open3d"
    /\ req.endpoint = "stats"
    /\ \E id \in Uuid4(issued) :
         /\ issued' = issued \cup {id}
         /\ thr' = [thr EXCEPT ![r] = [Started(req, id) EXCEPT !.pc = "save"]]
    /\ accepted' = accepted + 1
    /\ UNCHANGED <<server, fs>>

StatsSaveInput(r) ==
    /\ server = "open3d"
    /\ thr[r].endpoint = "stats"
    /\ thr[r].pc = "save"
    /\ \E ok \in BOOLEAN :
         LET res == SaveInput(thr[r], fs, ok)
         IN  /\ thr' = [thr EXCEPT ![r] =
                   IF res[1].pc = "done" THEN res[1] ELSE [res[1] EXCEPT !.pc = "stats_load"]]
             /\ fs' = res[2]
    /\ UNCHANGED <<server, issued, accepted>>

\* Load the cloud, the neighbour distances and their mean.
StatsCompute(r) ==
    /\ server = "open3d"
    /\ thr[r].pc = "stats_load"
    /\ LET t == thr[r]
           path == TheValue(t.input_path)
       IN  thr' = [thr EXCEPT ![r] =
              [Called(t, <<"read_point_cloud", "compute_nearest_neighbor_distance">>)
                  EXCEPT !.touched = @ \cup {path},
                         !.pcd = Some(ReadPointCloud(fs, path)),
                         !.pc = "stats_remove"]]
    /\ UNCHANGED <<server, fs, issued, accepted>>

\* "Clean up" (os.remove inside try / except: pass), then the answer.
StatsRemoveInput(r) ==
    /\ server = "open3d"
    /\ thr[r].pc = "stats_remove"
    /\ LET t == thr[r]
           path == TheValue(t.input_path)
           pcd == TheValue(t.pcd)
           t1 == [Called(t, <<"os.remove">>) EXCEPT
                     !.touched = @ \cup {path}, !.pc = "done",
                     !.resp = Some([status |-> 200,
                                    body |-> [num_points |-> pcd.n,
                                              has_normals |-> pcd.normals],
                                    file |-> None, headers |-> EmptyDict])]
       IN  \E ok \in BOOLEAN :
             IF ok /\ path \in DOMAIN fs
             THEN /\ fs' = RemoveFile(fs, path)
                  /\ thr' = [thr EXCEPT ![r] = t1]
             ELSE /\ fs' = fs
                  /\ thr' = [thr EXCEPT ![r] =
                        Swallow(t1, "os.remove", Exc("OSError", "cannot remove file"))]
    /\ UNCHANGED <<server, issued, accepted>>

\* ------------------------------------------------------ health_check
HealthCheck(r, req) ==
    /\ req.endpoint = "health"
    /\ thr' = [thr EXCEPT ![r] =
          [Idle EXCEPT !.endpoint = "health", !.pc = "done",
                       !.resp = Some([status |-> 200,
                                      body |-> [status |-> "ok"],
                                      file |-> None, headers |-> EmptyDict])]]
    /\ accepted' = accepted + 1
    /\ UNCHANGED <<server, fs, issued>>


\* ================================== app_trimesh_alternative.py (Trimesh)
DefaultAlpha == 50
AlphaPerRadius == 30

\* create_mesh, up to the parameters: alpha from 'alpha', and then from
\* 'radius_multiplier' when the query has one.
TriMeshBegin(r, req) ==
    /\ server = "trimesh"
    /\ req.endpoint = "mesh"
    /\ \E id \in Uuid4(issued) :
         LET t0 == Started(req, id)
             al == ArgFloat(req.args, "alpha", DefaultAlpha)
             mapped == "radius_multiplier" \in DOMAIN req.args
             radius == ArgFloat(req.args, "radius_multiplier", DefaultRadiusMultiplier)
         IN  /\ issued' = issued \cup {id}
             /\ thr' = [thr EXCEPT ![r] =
                   IF ~al.ok \/ (mapped /\ ~radius.ok)
                   THEN Raise(t0, "float", Exc("ValueError", "could not convert string to float"))
                   ELSE [t0 EXCEPT !.pc = "tri_input",
                                   !.alpha = IF mapped
                                             THEN (radius.v * AlphaPerRadius) \div 1000
                                             ELSE al.v,
                                   !.output_format = ArgStr(req.args, "format", StrPly)]]
    /\ accepted' = accepted + 1
    /\ UNCHANGED <<server, fs>>

\* json_to_numpy: the coordinates of the JSON body's points.
JsonToNumpy(t) ==
    IF t.body.fmt # "json"
    THEN Raise(t, "get_json", Exc("BadRequest", "400 Bad Request"))
    ELSE IF t.body.n = 0
    THEN Raise(t, "json_to_numpy", Exc("ValueError", "No points in JSON data"))
    ELSE IF ~t.body.keys
    THEN Raise(t, "json_to_numpy", Exc("KeyError", "'x'"))
    ELSE [t EXCEPT !.pcd = Some(Cloud(t.body.n, FALSE))]

\* "Parse input", first step: a JSON body is converted in memory; any
\* other body is written to uploads/<file_id>.ply.  ok is whether open()
\* succeeds.  The result is <<thread record, files>>; the thread is at
\* next when the coordinates are there and at "tri_load" when the file is.
TriInput(t, files, ok, next) ==
    IF t.ctype = "application/json"
    THEN LET t1 == JsonToNumpy(t)
         IN  <<IF t1.pc = "done" THEN t1 ELSE [t1 EXCEPT !.pc = next], files>>
    ELSE LET path == UploadPath(t.file_id, StrPly)
         IN  IF ok
             THEN <<[t EXCEPT !.input_path = Some(path), !.created = @ \cup {path},
                              !.touched = @ \cup {path}, !.pc = "tri_load"],
                    WriteFile(files, path, t.body)>>
             ELSE <<Raise([t EXCEPT !.touched = @ \cup {path}], "open",
                          Exc("OSError", "cannot open file")), files>>

\* trimesh.load(input_path): the vertices of a PLY file; any other bytes
\* raise.
TriLoad(t, files) ==
    LET path == TheValue(t.input_path)
        t1 == [Called(t, <<"trimesh.load">>) EXCEPT !.touched = @ \cup {path}]
    IN  IF path \in DOMAIN files /\ files[path].fmt = "ply"
        THEN [t1 EXCEPT !.pcd = Some(Cloud(files[path].n, files[path].normals)),
                        !.pc = "tri_remove"]
        ELSE Raise(t1, "trimesh.load", Exc("ValueError", "File type not supported"))

\* os.remove(input_path), outside any try of its own.  The result is
\* <<thread record, files>>.
TriRemove(t, files, ok, next) ==
    LET path == TheValue(t.input_path)
        t1 == [Called(t, <<"os.remove">>) EXCEPT !.touched = @ \cup {path}]
    IN  IF ok /\ path \in DOMAIN files
        THEN <<[t1 EXCEPT !.pc = next], RemoveFile(files, path)>>
        ELSE <<Raise(t1, "os.remove", Exc("OSError", "cannot remove file")), files>>

TriMeshInput(r) ==
    /\ server = "trimesh"
    /\ thr[r].endpoint = "mesh"
    /\ thr[r].pc = "tri_input"
    /\ \E ok \in BOOLEAN :
         LET res == TriInput(thr[r], fs, ok, "tri_recon")
         IN  thr' = [thr EXCEPT ![r] = res[1]] /\ fs' = res[2]
    /\ UNCHANGED <<server, issued, accepted>>

TriMeshLoad(r) ==
    /\ server = "trimesh"
    /\ thr[r].endpoint = "mesh"
    /\ thr[r].pc = "tri_load"
    /\ thr' = [thr EXCEPT ![r] = TriLoad(thr[r], fs)]
    /\ UNCHANGED <<server, fs, issued, accepted>>

TriMeshRemove(r) ==
    /\ server = "trimesh"
    /\ thr[r].endpoint = "mesh"
    /\ thr[r].pc = "tri_remove"
    /\ \E ok \in BOOLEAN :
         LET res == TriRemove(thr[r], fs, ok, "tri_recon")
         IN  thr' = [thr EXCEPT ![r] = res[1]] /\ fs' = res[2]
    /\ UNCHANGED <<server, issued, accepted>>

\* What trimesh.creation.alpha_shape may do on n points: a mesh with
\* faces, a mesh without, or an exception (always one below 4 points).
AlphaShapeResults(n) == IF n < 4 THEN {"raise"} ELSE {"mesh", "empty", "raise"}

\* reconstruct_mesh_alpha_shape: normals, alpha shape with the convex
\* hull as its fallback, colours, cleanup, statistics.
TriRecon(r) ==
    /\ server = "trimesh"
    /\ thr[r].pc = "tri_recon"
    /\ LET t == thr[r]
           n == TheValue(t.pcd).n
           t1 == Called(t, <<"cKDTree", "alpha_shape">>)
           done(t2) == [Called(t2, <<"merge_vertices", "remove_degenerate_faces",
                                     "remove_unreferenced_vertices", "fix_normals">>)
                           EXCEPT !.mesh = Some(Mesh(n, 2 * n - 4)),
                                  !.stats = Some([num_input_points |-> n,
                                                  num_vertices |-> n,
                                                  num_triangles |-> 2 * n - 4,
                                                  alpha_used |-> t.alpha]),
                                  !.pc = "tri_export"]
       IN  \E res \in AlphaShapeResults(n) :
             thr' = [thr EXCEPT ![r] =
               IF res = "mesh"
               THEN done(t1)
               ELSE LET t2 == Called(Swallow(t1, "alpha_shape",
                                       IF res = "empty"
                                       THEN Exc("ValueError", "Alpha shape failed, trying alternative method...")
                                       ELSE Exc("RuntimeError", "alpha shape failed")),
                                     <<"convex_hull">>)
                    IN  IF n < 4
                        THEN Raise(t2, "convex_hull", Exc("QhullError", "QH6214 qhull input error"))
                        ELSE done(t2)]
    /\ UNCHANGED <<server, fs, issued, accepted>>

\* mesh.export(output_path): the output file, named by the identifier
\* and the lower-cased format.  When the export raises the file may or
\* may not have been created.
TriExport(r) ==
    /\ server = "trimesh"
    /\ thr[r].pc = "tri_export"
    /\ LET t == thr[r]
           path == OutputPath(t.file_id, Lower(t.output_format))
           mesh == TheValue(t.mesh)
           t1 == [Called(t, <<"export">>) EXCEPT !.output_path = Some(path),
                                                 !.touched = @ \cup {path}]
       IN  \E ok \in BOOLEAN, partial \in BOOLEAN :
             IF ok
             THEN /\ ~partial
                  /\ fs' = WriteFile(fs, path,
                              Blob(ExtFormat(path.ext), mesh.nv, TRUE, mesh.nt, TRUE))
                  /\ thr' = [thr EXCEPT ![r] =
                        [t1 EXCEPT !.created = @ \cup {path}, !.pc = "send"]]
             ELSE /\ fs' = IF partial
                           THEN WriteFile(fs, path, Blob("junk", 0, FALSE, 0, TRUE))
                           ELSE fs
                  /\ thr' = [thr EXCEPT ![r] =
                        Raise([t1 EXCEPT !.created = IF partial THEN @ \cup {path} ELSE @],
                              "export", Exc("OSError", "cannot write file"))]
    /\ UNCHANGED <<server, issued, accepted>>

TriMeshSendFile(r) ==
    /\ server = "trimesh"
    /\ thr[r].endpoint = "mesh"
    /\ thr[r].pc = "send"
    /\ \E ok \in BOOLEAN : thr' = [thr EXCEPT ![r] = SendFile(thr[r], fs, ok)]
    /\ UNCHANGED <<server, fs, issued, accepted>>

\* --------------------------------------------------- get_mesh_stats
TriStatsBegin(r, req) ==
    /\ server = "trimesh"
    /\ req.endpoint = "stats"
    /\ \E id \in Uuid4(issued) :
         /\ issued' = issued \cup {id}
         /\ thr' = [thr EXCEPT ![r] = [Started(req, id) EXCEPT !.pc = "tri_input"]]
    /\ accepted' = accepted + 1
    /\ UNCHANGED <<server, fs>>

TriStatsInput(r) ==
    /\ server = "trimesh"
    /\ thr[r].endpoint = "stats"
    /\ thr[r].pc = "tri_input"
    /\ \E ok \in BOOLEAN :
         LET res == TriInput(thr[r], fs, ok, "tri_stats")
         IN  thr' = [thr EXCEPT ![r] = res[1]] /\ fs' = res[2]
    /\ UNCHANGED <<server, issued, accepted>>

TriStatsLoad(r) ==
    /\ server = "trimesh"
    /\ thr[r].endpoint = "stats"
    /\ thr[r].pc = "tri_load"
    /\ thr' = [thr EXCEPT ![r] = TriLoad(thr[r], fs)]
    /\ UNCHANGED <<server, fs, issued, accepted>>

TriStatsRemove(r) ==
    /\ server = "trimesh"
    /\ thr[r].endpoint = "stats"
    /\ thr[r].pc = "tri_remove"
    /\ \E ok \in BOOLEAN :
         LET res == TriRemove(thr[r], fs, ok, "tri_stats")
         IN  thr' = [thr EXCEPT ![r] = res[1]] /\ fs' = res[2]
    /\ UNCHANGED <<server, issued, accepted>>

\* "Calculate statistics" and the answer.
TriStatsCompute(r) ==
    /\ server = "trimesh"
    /\ thr[r].pc = "tri_stats"
    /\ thr' = [thr EXCEPT ![r] =
          [Called(thr[r], <<"cKDTree">>) EXCEPT
              !.pc = "done",
              !.resp = Some([status |-> 200,
                             body |-> [num_points |-> TheValue(thr[r].pcd).n,
                                       has_colors |-> TRUE],
                             file |-> None, headers |-> EmptyDict])]]
    /\ UNCHANGED <<server, fs, issued, accepted>>

\* ============ reconstruct_mesh_ball_pivoting called by an importer
ParamKeys ==
    {"radius_multiplier", "num_radii", "estimate_normals", "normal_radius",
     "normal_max_nn"}

\* A params dict with every key set, to a value that is not the default
\* (estimate_normals to en).
FullParams(en) ==
    [radius_multiplier |-> 2500, num_radii |-> 3, estimate_normals |-> en,
     normal_radius |-> Some(100), normal_max_nn |-> 10]

\* The params a caller may pass: None, or a dict with any of the keys.
DirectParams ==
    {None} \cup {Some(Restrict(FullParams(en), K)) : K \in SUBSET ParamKeys, en \in BOOLEAN}

DirectClouds ==
    {Blob("ply", 4, FALSE, 0, TRUE), Blob("ply", 5, TRUE, 0, TRUE),
     Blob("junk", 0, FALSE, 0, TRUE)}

\* A caller puts a cloud at input_path and calls the function.
DirectCall(r, params, blob) ==
    /\ server = "open3d"
    /\ \E id \in Uuid4(issued) :
         LET in == Path("tmp", id, StrPly)
             out == Path("tmp", id, StrObj)
         IN  /\ issued' = issued \cup {id}
             /\ fs' = WriteFile(fs, in, blob)
             /\ thr' = [thr EXCEPT ![r] =
                   [Idle EXCEPT !.endpoint = "direct", !.pc = "recon", !.file_id = id,
                                !.params = params, !.input_path = Some(in),
                                !.output_path = Some(out)]]
    /\ accepted' = accepted + 1
    /\ UNCHANGED server

\* The function has returned (or raised); the caller takes its files away.
Return(r) ==
    /\ thr[r].pc \in {"returned", "raised"}
    /\ thr' = [thr EXCEPT ![r] = Idle]
    /\ fs' = [q \in {x \in DOMAIN fs : ~(x.dir = "tmp" /\ x.id = thr[r].file_id)} |-> fs[q]]
    /\ UNCHANGED <<server, issued, accepted>>

\* The response leaves the server; the thread ends.
Deliver(r) ==
    /\ thr[r].pc = "done"
    /\ thr' = [thr EXCEPT ![r] = Idle]
    /\ UNCHANGED <<server, fs, issued, accepted>>

\* ---------------------------------------------------- specifications
Step(r) ==
    \/ MeshSaveInput(r)
    \/ StatsSaveInput(r)
    \/ StatsCompute(r)
    \/ StatsRemoveInput(r)
    \/ ReconLoad(r)
    \/ ReconNormals(r)
    \/ ReconBallPivoting(r)
    \/ ReconCleanup(r)
    \/ ReconWrite(r)
    \/ MeshRemoveInput(r)
    \/ MeshSendFile(r)
    \/ TriMeshInput(r)
    \/ TriMeshLoad(r)
    \/ TriMeshRemove(r)
    \/ TriRecon(r)
    \/ TriExport(r)
    \/ TriMeshSendFile(r)
    \/ TriStatsInput(r)
    \/ TriStatsLoad(r)
    \/ TriStatsRemove(r)
    \/ TriStatsCompute(r)
    \/ Deliver(r)

Begin(r, req) ==
    \/ MeshBegin(r, req)
    \/ StatsBegin(r, req)
    \/ HealthCheck(r, req)
    \/ TriMeshBegin(r, req)
    \/ TriStatsBegin(r, req)

\* One request at a time.
Next ==
    \/ /\ Busy = {}
       /\ accepted < MaxRequests
       /\ \E req \in Requests(server) : Begin(FreeSlot, req)
    \/ \E r \in Slots : Step(r)

Spec == Init /\ [][Next]_vars

\* The reconstruction function under every parameter dict: the /mesh
\* requests of the Open3D server and direct calls, one at a time.
ReconStep(r) ==
    \/ MeshSaveInput(r)
    \/ ReconLoad(r)
    \/ ReconNormals(r)
    \/ ReconBallPivoting(r)
    \/ ReconCleanup(r)
    \/ ReconWrite(r)
    \/ MeshRemoveInput(r)
    \/ MeshSendFile(r)
    \/ Deliver(r)
    \/ Return(r)

NextRecon ==
    \/ /\ Busy = {}
       /\ accepted < MaxRequests
       /\ \/ \E req \in Requests(server) : MeshBegin(FreeSlot, req)
          \/ \E params \in DirectParams, blob \in DirectClouds :
                DirectCall(FreeSlot, params, blob)
    \/ \E r \in Slots : ReconStep(r)

SpecRecon == Init /\ [][NextRecon]_vars

\* Requests in flight together, their steps interleaved in any order.
ConcPayloads ==
    {<<"application/octet-stream", Blob("ply", 4, FALSE, 0, TRUE)>>,
     <<"application/octet-stream", Blob("ply", 5, TRUE, 0, TRUE)>>}

ConcRequests ==
    {Request(e, EmptyDict, pl) : e \in {"mesh", "stats"}, pl \in ConcPayloads}

NextConc ==
    \/ /\ accepted < MaxConc
       /\ \E r \in Slots : thr[r].pc = "idle"
       /\ \E req \in ConcRequests : Begin(FreeSlot, req)
    \/ \E r \in Slots : Step(r)

SpecConc == Init /\ [][NextConc]_vars

\* ============================================================= claims
Resp(r) == TheValue(thr[r].resp)
Answered == {r \in Slots : thr[r].pc = "done" /\ thr[r].endpoint \in {"mesh", "stats"}}
Last(seq) == seq[Len(seq)]
Names(seq) == {seq[i] : i \in 1..Len(seq)}
\* The sites whose exceptions are caught on the spot.
SwallowSites == IF server = "open3d" THEN {"os.remove"} ELSE {"alpha_shape"}
Propagated(r) == {i \in 1..Len(thr[r].raised) : thr[r].raised[i].site \notin SwallowSites}
IsErrorResponse(resp, e) ==
    /\ resp.status = 500
    /\ resp.body = [error |-> e.msg, type |-> e.type]

\* C1 as stated: a /mesh or /mesh/stats request in which any step raised
\* an exception ends with HTTP 500 and a JSON body carrying 'error' and
\* 'type'.
C1_AnyExceptionEndsIn500 ==
    \A r \in Answered :
        Len(thr[r].raised) > 0 =>
            /\ Resp(r).status = 500
            /\ DOMAIN Resp(r).body = {"error", "type"}

\* C1 amended: an exception raised anywhere but in the Open3D server's
\* input clean-up (os.remove under except: pass) and the Trimesh server's
\* alpha-shape step (caught, convex hull as fallback) is the last thing
\* the request does and ends it with HTTP 500 and the JSON body
\* {error: message, type: class name}; a request in which no such
\* exception was raised answers 200; no exception leaves the handler and
\* no site raises twice (nothing is retried).
C1_PropagatedExceptionEndsIn500 ==
    \A r \in Answered :
        /\ \A i \in Propagated(r) :
              /\ i = Len(thr[r].raised)
              /\ IsErrorResponse(Resp(r), thr[r].raised[i])
        /\ Propagated(r) = {} => Resp(r).status = 200
        /\ \A i, j \in 1..Len(thr[r].raised) :
              i # j => thr[r].raised[i].site # thr[r].raised[j].site

\* A request that failed while building its response (after a swallowed
\* exception or not) and answered 500.
C1_Witness ==
    \E r \in Answered :
        /\ Propagated(r) # {}
        /\ Last(thr[r].raised).site = "send_file"
        /\ Last(thr[r].raised).type = "FileNotFoundError"
        /\ Resp(r).status = 500

\* C2 as stated: once a request has been processed (answered, with
\* success or with an error), uploads/ holds no file it created; every
\* file under uploads/ belongs to a request still being processed.
C2_UploadsDeletedAfterRequest ==
    \A q \in FilesIn(fs, "uploads") :
        \E r \in InFlight : thr[r].file_id = q.id

OwnFiles(r, dir) == {q \in FilesIn(fs, dir) : q.id = thr[r].file_id}
CreatedIn(r, dir) == {q \in thr[r].created : q.dir = dir}

\* What C3 says of every request: its files carry its identifier, at
\* most one under uploads/ and at most one under outputs/; a /mesh
\* request that answered 200 left exactly one output, the mesh it sent.
C3_OneFilePerRequest(r) ==
    /\ \A q \in thr[r].created : q.id = thr[r].file_id /\ q.dir \in {"uploads", "outputs"}
    /\ Cardinality(CreatedIn(r, "uploads")) <= 1
    /\ Cardinality(CreatedIn(r, "outputs")) <= 1
    /\ OwnFiles(r, "uploads") \subseteq thr[r].created
    /\ OwnFiles(r, "outputs") \subseteq thr[r].created
    /\ (r \in Answered /\ thr[r].endpoint = "mesh" /\ Resp(r).status = 200) =>
          /\ Cardinality(OwnFiles(r, "outputs")) = 1
          /\ \A q \in OwnFiles(r, "outputs") : Resp(r).file = Some(fs[q])

\* C3 as stated: one file per request, and a request that answered with
\* an error leaves no file under outputs/.
C3_ErrorLeavesNoOutput ==
    \A r \in Slots :
        thr[r].endpoint \in {"mesh", "stats"} =>
            /\ C3_OneFilePerRequest(r)
            /\ (r \in Answered /\ Resp(r).status = 500) => OwnFiles(r, "outputs") = {}

\* C3 amended: one file per request as stated, but a /mesh request that
\* answered with an error leaves no file under outputs/ only when it
\* failed before the mesh was written; when writing the mesh or sending
\* it (send_file) raised, its one output file may remain.
C3_ErrorLeavesAtMostOneOutput ==
    \A r \in Slots :
        thr[r].endpoint \in {"mesh", "stats"} =>
            /\ C3_OneFilePerRequest(r)
            /\ (r \in Answered /\ Resp(r).status = 500) =>
                  /\ Cardinality(OwnFiles(r, "outputs")) <= 1
                  /\ OwnFiles(r, "outputs") # {} =>
                        Last(thr[r].raised).site \in
                            {"write_triangle_mesh", "export", "send_file"}

\* A /mesh request that wrote its mesh, failed in send_file and answered
\* 500 with the mesh still under outputs/.
C3_Witness ==
    \E r \in Answered :
        /\ thr[r].endpoint = "mesh"
        /\ Resp(r).status = 500
        /\ Last(thr[r].raised).site = "send_file"
        /\ \E q \in OwnFiles(r, "outputs") : fs[q].tris > 0

\* The value a query string gives for a numeric key, written out.
QueryNumber(str) ==
    CASE str = Str25 -> 2500 [] str = Str3 -> 3000 [] str = Str01 -> 100

\* C4: create_mesh hands reconstruct_mesh_ball_pivoting the request's own
\* parameters (radius_multiplier: the query value, 1.5 when absent;
\* num_radii: the query value, 2 when absent; estimate_normals: True),
\* and reconstruct_mesh_ball_pivoting fills in 1.5, 2, True, None (auto
\* normal radius) and 30 for every key params lacks, also when params is
\* None, and takes every key params has from params.
C4_ParamsForwardedAndDefaulted ==
    \A r \in Slots :
        /\ (thr[r].endpoint = "mesh" /\ server = "open3d" /\ thr[r].params # None) =>
              LET a == thr[r].args
                  d == TheValue(thr[r].params)
              IN  /\ DOMAIN d = {"radius_multiplier", "num_radii", "estimate_normals"}
                  /\ d.radius_multiplier =
                        IF "radius_multiplier" \in DOMAIN a
                        THEN QueryNumber(a["radius_multiplier"]) ELSE 1500
                  /\ d.num_radii =
                        IF "num_radii" \in DOMAIN a
                        THEN QueryNumber(a["num_radii"]) \div 1000 ELSE 2
                  /\ d.estimate_normals = TRUE
        /\ thr[r].p # None =>
              LET d == IF thr[r].params = None THEN EmptyDict ELSE TheValue(thr[r].params)
                  p == TheValue(thr[r].p)
                  has(k) == k \in DOMAIN d
              IN  /\ p.radius_multiplier = IF has("radius_multiplier") THEN d["radius_multiplier"] ELSE 1500
                  /\ p.num_radii = IF has("num_radii") THEN d["num_radii"] ELSE 2
                  /\ p.estimate_normals = IF has("estimate_normals") THEN d["estimate_normals"] ELSE TRUE
                  /\ p.normal_radius = IF has("normal_radius") THEN d["normal_radius"] ELSE None
                  /\ p.normal_max_nn = IF has("normal_max_nn") THEN d["normal_max_nn"] ELSE 30

\* A /mesh request with radius_multiplier=2.5 and no num_radii whose
\* parameters reached the reconstruction: 2.5, 2, True, auto, 30.
C4_Witness ==
    \E r \in Slots :
        /\ thr[r].endpoint = "mesh"
        /\ DOMAIN thr[r].args = {"radius_multiplier"}
        /\ thr[r].p = Some([radius_multiplier |-> 2500, num_radii |-> 2,
                            estimate_normals |-> TRUE, normal_radius |-> None,
                            normal_max_nn |-> 30])

\* C5 as stated: the Trimesh server's /mesh reconstructs with (and
\* reports as alpha_used) the 'alpha' query value when the request has
\* one, whatever else it carries, and 0.05 when it has none.
C5_AlphaIsTheQueryValue ==
    \A r \in Slots :
        (server = "trimesh" /\ thr[r].endpoint = "mesh" /\ thr[r].stats # None) =>
            TheValue(thr[r].stats).alpha_used =
                IF "alpha" \in DOMAIN thr[r].args
                THEN QueryNumber(thr[r].args["alpha"]) ELSE 50

ReconstructionCalls ==
    {"create_from_point_cloud_ball_pivoting", "alpha_shape", "convex_hull",
     "write_triangle_mesh", "export"}

SameOutputs ==
    /\ FilesIn(fs', "outputs") = FilesIn(fs, "outputs")
    /\ \A q \in FilesIn(fs, "outputs") : fs'[q] = fs[q]

Index(seq, x) == CHOOSE i \in 1..Len(seq) : seq[i] = x

CleanupCalls ==
    <<"remove_duplicated_vertices", "remove_duplicated_triangles",
      "remove_degenerate_triangles", "remove_unreferenced_vertices">>

\* C7: in reconstruct_mesh_ball_pivoting the cloud is loaded first and
\* an empty cloud stops the function there with ValueError; Ball Pivoting
\* is invoked only on a non-empty cloud with normals; normals are
\* estimated and then oriented, before Ball Pivoting, exactly when
\* estimate_normals is true or the loaded cloud has none; the mesh is
\* written only after Ball Pivoting gave at least one triangle and the
\* four cleanup steps ran, in their order.
C7_ReconstructionOrder ==
    \A r \in Slots :
        LET t == thr[r]
            \* the calls made inside the function
            c == SelectSeq(t.calls, LAMBDA x : x \notin {"write_point_cloud", "os.remove", "send_file"})
            bpa == "create_from_point_cloud_ball_pivoting"
        IN  t.p # None =>
              /\ c[1] = "read_point_cloud"
              /\ TheValue(t.pcd).n = 0 =>
                    /\ c = <<"read_point_cloud">>
                    /\ t.pc \in {"done", "raised"}
                    /\ Last(t.raised).type = "ValueError"
              /\ t.pc = "bpa" => TheValue(t.pcd).n > 0 /\ TheValue(t.pcd).normals
              /\ bpa \in Names(c) => TheValue(t.pcd).n > 0 /\ TheValue(t.pcd).normals
              /\ t.pc \in {"bpa", "cleanup", "write"} =>
                    ("estimate_normals" \in Names(c)
                        <=> (TheValue(t.p).estimate_normals
                             \/ ~ReadPointCloud(fs, TheValue(t.input_path)).normals))
              /\ "estimate_normals" \in Names(c) =>
                    /\ "orient_normals_consistent_tangent_plane" \in Names(c)
                    /\ Index(c, "estimate_normals")
                          < Index(c, "orient_normals_consistent_tangent_plane")
                    /\ bpa \in Names(c) =>
                          Index(c, "orient_normals_consistent_tangent_plane") < Index(c, bpa)
              /\ "write_triangle_mesh" \in Names(c) =>
                    /\ t.mesh # None
                    /\ TheValue(t.mesh).nt >= 1
                    /\ \A i \in 1..4 :
                          /\ CleanupCalls[i] \in Names(c)
                          /\ Index(c, bpa) < Index(c, CleanupCalls[i])
                          /\ Index(c, CleanupCalls[i]) < Index(c, "write_triangle_mesh")
                          /\ i < 4 => Index(c, CleanupCalls[i]) < Index(c, CleanupCalls[i + 1])

\* A call with estimate_normals false on a cloud that has normals: the
\* estimation was skipped and the mesh was written.
C7_Witness ==
    \E r \in Slots :
        /\ thr[r].pc = "returned"
        /\ ~TheValue(thr[r].p).estimate_normals
        /\ "estimate_normals" \notin Names(thr[r].calls)
        /\ "write_triangle_mesh" \in Names(thr[r].calls)

\* What the upload of a request holds: the body itself, or the PLY the
\* Open3D server converts a JSON body to.
OwnUpload(r) ==
    IF thr[r].ctype = "application/json"
    THEN Blob("ply", thr[r].body.n, FALSE, 0, TRUE)
    ELSE thr[r].body

\* The triangles of the mesh each server makes of n points, as a header.
OwnTriangles(n) ==
    IF server = "open3d" THEN (IF n = 4 THEN <<"2">> ELSE <<"3">>)
    ELSE (IF n = 4 THEN <<"4">> ELSE <<"6">>)

\* C8: with requests in flight together and distinct identifiers, every
\* path a request writes, reads or deletes carries its own identifier;
\* its upload, from the moment it is written until the request deletes
\* it or ends, and its output, until it is sent, hold what the request
\* itself put there; and the mesh and the X-Num-Vertices /
\* X-Num-Triangles headers of a 200 response are those of the request's
\* own input.
C8_RequestsDoNotInterfere ==
    \A r \in Slots :
        LET t == thr[r]
        IN  /\ \A q \in t.touched : q.id = t.file_id
            /\ (t.input_path # None
                /\ t.pc \in {"recon", "normals", "bpa", "cleanup", "write", "remove",
                             "stats_load", "stats_remove", "tri_load", "tri_remove"}) =>
                  /\ TheValue(t.input_path) \in DOMAIN fs
                  /\ fs[TheValue(t.input_path)] = OwnUpload(r)
            /\ t.pc = "send" =>
                  /\ TheValue(t.output_path) \in DOMAIN fs
                  /\ fs[TheValue(t.output_path)].n = t.body.n
            /\ (t.pc = "done" /\ t.endpoint = "mesh" /\ Resp(r).status = 200) =>
                  /\ TheValue(Resp(r).file).n = t.body.n
                  /\ Resp(r).headers.XNumVertices = (IF t.body.n = 4 THEN <<"4">> ELSE <<"5">>)
                  /\ Resp(r).headers.XNumTriangles = OwnTriangles(t.body.n)
            /\ (t.pc = "done" /\ t.endpoint = "stats" /\ Resp(r).status = 200) =>
                  Resp(r).body.num_points = t.body.n

\* Two /mesh requests of different clouds, in flight together, both
\* answered 200.
C8_Witness ==
    \E r1, r2 \in Answered :
        /\ thr[r1].endpoint = "mesh" /\ thr[r2].endpoint = "mesh"
        /\ Resp(r1).status = 200 /\ Resp(r2).status = 200
        /\ thr[r1].body.n = 4 /\ thr[r2].body.n = 5

====
